---- MODULE Spec2Model ----
(***************************************************************************)
(* Model of the homework-review Telegram bot (src/homework.py).            *)
(*                                                                         *)
(* Python values are modelled as follows.                                  *)
(*   str      a sequence of text chunks; an f-string or a concatenation is *)
(*            the concatenation (\o) of the chunks of its parts, so a      *)
(*            status such as "approved" is never equal to a message built  *)
(*            around it.  Russian literals are transliterated.             *)
(*   object   a record [type, str, int, list]: type is the Python type     *)
(*            name, the other fields hold the payload of that type.        *)
(*   dict     a record [type |-> "dict", items |-> function from the keys  *)
(*            that are present to objects].                                *)
(*   raise    a function outcome is a record [raised, kind, text, value]:  *)
(*            kind is the exception class, text is str(exception).         *)
(***************************************************************************)
EXTENDS Integers, Sequences, FiniteSets, TLC

\* ---------------------------------------------------------------- bounds
\* current_date values offered by the API are 1..MaxDate (time.time() is 0)
MaxDate == 2
\* longest `homeworks` list the validator is fed
MaxHomeworks == 2

\* ------------------------------------------------------- program constants
RETRY_PERIOD == 600

\* ------------------------------------------------------------ Python values
Obj(t, s, i, l) == [type |-> t, str |-> s, int |-> i, list |-> l]
None == Obj("NoneType", <<>>, 0, <<>>)
Str(s) == Obj("str", s, 0, <<>>)
Int_(n) == Obj("int", <<>>, n, <<>>)
List(l) == Obj("list", <<>>, 0, l)

\* bool(x) for the objects the program tests: None and "" are falsy
truthy(x) ==
    CASE x.type = "NoneType" -> FALSE
      [] x.type = "str" -> x.str # <<>>
      [] x.type = "int" -> x.int # 0
      [] x.type = "list" -> x.list # <<>>
      [] OTHER -> TRUE

\* format(x) inside an f-string
fmt(x) ==
    CASE x.type = "NoneType" -> <<"None">>
      [] x.type = "str" -> x.str
      [] x.type = "int" -> <<ToString(x.int)>>
      [] x.type = "list" -> <<"[...]">>
      [] OTHER -> <<"<", x.type, ">">>

EmptyItems == [k \in {} |-> None]
Dict(items) == [type |-> "dict", items |-> items]
NotDict(t) == [type |-> t, items |-> EmptyItems]
has(d, k) == k \in DOMAIN d.items

\* ------------------------------------------------------ function outcomes
Return(v) == [raised |-> FALSE, kind |-> "", text |-> <<>>, value |-> v]
Raise(kind, text) == [raised |-> TRUE, kind |-> kind, text |-> text, value |-> None]

\* an exception class (callable) or a caught exception instance (not callable)
Class(name) == [name |-> name, callable |-> TRUE]
Instance(name) == [name |-> name, callable |-> FALSE]

\* str(KeyError(msg)) is repr(msg); every other class prints msg itself
exc_text(kind, msg) ==
    IF kind = "KeyError" THEN <<"'">> \o msg \o <<"'">> ELSE msg

error_dispatcher(msg, error) ==
    IF error.callable
    THEN Raise(error.name, exc_text(error.name, msg))
    ELSE Raise("TypeError", <<"'", error.name, "' object is not callable">>)

HOMEWORK_VERDICTS ==
    (<<"approved">> :> <<"Rabota proverena: revyueru vsyo ponravilos. Ura!">>)
    @@ (<<"reviewing">> :> <<"Rabota vzyata na proverku revyuerom.">>)
    @@ (<<"rejected">> :> <<"Rabota proverena: u revyuera est zamechaniya.">>)

\* ------------------------------------------------------------ check_tokens
\* a test for None in place of the truth test of line 67
absent_tokens_none_only(tokens) ==
    {name \in DOMAIN tokens : tokens[name].type = "NoneType"}

absent_tokens(tokens) == {name \in DOMAIN tokens : ~truthy(tokens[name])}

check_tokens(tokens) ==
    IF absent_tokens(tokens) # {}
    THEN error_dispatcher(
             <<"Otsutstvuet odno ili bolee obyazatelnyh peremennyh okruzheniya: ">>
                 \o <<ToString(absent_tokens(tokens))>>,
             Class("EnvVarsNotSetError"))
    ELSE Return(None)

\* ---------------------------------------------------------- check_response
\* lines 168-178: current_date present (not None) and an int
check_current_date(response) ==
    LET current_date == IF has(response, "current_date")
                        THEN response.items["current_date"] ELSE None
    IN  IF current_date.type = "NoneType"
        THEN error_dispatcher(<<"Otsutstvuet klyuch 'current_date' v otvete">>,
                              Class("CheckHomeworkError"))
        ELSE IF current_date.type # "int"
        THEN error_dispatcher(
                 <<"Klyuch 'current_date' dolzhen byt celym chislom. Poluchili: ">>
                     \o fmt(current_date) \o <<" tipa ", current_date.type>>,
                 Class("CheckHomeworkError"))
        ELSE Return(None)

\* lines 157-166: response["homeworks"][-1].keys() holds status and homework_name
check_required(response) ==
    LET homeworks == response.items["homeworks"].list
    IN  IF homeworks = <<>>
        THEN Raise("IndexError", <<"list index out of range">>)
        ELSE LET last == homeworks[Len(homeworks)]
                 required == <<"status", "homework_name">>
                 missing == SelectSeq(required, LAMBDA key : ~has(last, key))
             IN  IF last.type # "dict"
                 THEN Raise("AttributeError",
                            <<"'", last.type, "' object has no attribute 'keys'">>)
                 ELSE IF missing # <<>>
                 THEN error_dispatcher(
                          <<"Otsutstvuyut obyazatelnye klyuchi v elemente 'homeworks': ">>
                              \o missing,
                          Class("CheckRequiredFieldsError"))
                 ELSE check_current_date(response)

\* lines 150-155: a `code` key
check_code(response) ==
    IF has(response, "code")
    THEN LET source == IF has(response, "source")
                       THEN response.items["source"] ELSE Str(<<"neizvestnyi istochnik">>)
             message == IF has(response, "message")
                        THEN response.items["message"]
                        ELSE Str(<<"net soobscheniya ob oshibke">>)
         IN  error_dispatcher(
                 <<"V ">> \o fmt(source) \o <<" proizoshla oshibka ">> \o fmt(message),
                 Class("CheckResponseError"))
    ELSE check_required(response)

\* the `code` check placed before the `error` check
check_error_after_code(response) ==
    IF has(response, "code")
    THEN check_code(response)
    ELSE IF has(response, "error")
    THEN error_dispatcher(<<"Oshibka pri zaprose: ">> \o fmt(response.items["error"]),
                          Class("CheckRequestError"))
    ELSE check_code(response)

\* the `error` check with a truth test of the value
check_error_if_truthy(response) ==
    IF has(response, "error") /\ truthy(response.items["error"])
    THEN error_dispatcher(<<"Oshibka pri zaprose: ">> \o fmt(response.items["error"]),
                          Class("CheckRequestError"))
    ELSE check_code(response)

\* lines 145-148: an `error` key
check_error(response) ==
    IF has(response, "error")
    THEN error_dispatcher(<<"Oshibka pri zaprose: ">> \o fmt(response.items["error"]),
                          Class("CheckRequestError"))
    ELSE check_code(response)

\* lines 137-143: response["homeworks"] is a list
check_homeworks_is_list(response) ==
    IF response.items["homeworks"].type # "list"
    THEN error_dispatcher(
             <<"Znachenie po klyuchu 'homeworks' dolzhno byt spiskom, no poluchili ",
               response.items["homeworks"].type, ".">>,
             Class("TypeError"))
    ELSE check_error(response)

\* the `error` check placed before the `homeworks` check
check_has_homeworks_after_error(response) ==
    IF has(response, "error")
    THEN error_dispatcher(<<"Oshibka pri zaprose: ">> \o fmt(response.items["error"]),
                          Class("CheckRequestError"))
    ELSE IF ~has(response, "homeworks")
    THEN error_dispatcher(<<"Otsutstvuet klyuch 'homeworks' v otvete">>,
                          Class("CheckHomeworkError"))
    ELSE check_homeworks_is_list(response)

\* lines 132-135: the `homeworks` key
check_has_homeworks(response) ==
    IF ~has(response, "homeworks")
    THEN error_dispatcher(<<"Otsutstvuet klyuch 'homeworks' v otvete">>,
                          Class("CheckHomeworkError"))
    ELSE check_homeworks_is_list(response)

\* lines 126-130, then the rest in order
check_response(response) ==
    IF response.type # "dict"
    THEN error_dispatcher(<<"Otvet dolzhen byt slovarem, no poluchili ", response.type, ".">>,
                          Class("TypeError"))
    ELSE check_has_homeworks(response)

\* ------------------------------------------------------------ parse_status
status_message(homework_name, verdict) ==
    <<"Izmenilsya status proverki raboty \"">> \o fmt(homework_name)
        \o <<"\". ">> \o verdict

in_verdicts(actual_status) ==
    actual_status.type = "str" /\ actual_status.str \in DOMAIN HOMEWORK_VERDICTS

\* line 197
status_changed_ignoring_last(actual_status, last_status) ==
    actual_status.type # "NoneType"

status_changed(actual_status, last_status) ==
    actual_status # last_status /\ actual_status.type # "NoneType"

\* parse_status without the check of lines 192-196
parse_status_unchecked(homework, last_status) ==
    IF ~has(homework, "status")
    THEN Raise("KeyError", exc_text("KeyError", <<"status">>))
    ELSE LET actual_status == homework.items["status"]
         IN  IF ~has(homework, "homework_name")
             THEN error_dispatcher(<<"V otvete API net klyucha homework_name">>,
                                   Class("KeyError"))
             ELSE IF in_verdicts(actual_status)
                     /\ status_changed(actual_status, last_status)
             THEN Return(Str(status_message(homework.items["homework_name"],
                                            HOMEWORK_VERDICTS[actual_status.str])))
             ELSE Return(None)

parse_status(homework, last_status) ==
    IF ~has(homework, "status")
    THEN Raise("KeyError", exc_text("KeyError", <<"status">>))
    ELSE LET actual_status == homework.items["status"]
         IN  IF ~has(homework, "homework_name")
             THEN error_dispatcher(<<"V otvete API net klyucha homework_name">>,
                                   Class("KeyError"))
             ELSE IF ~in_verdicts(actual_status)
             THEN error_dispatcher(<<"Nedokumentirovannyi status: ">> \o fmt(actual_status),
                                   Class("CheckStatusExpectedError"))
             ELSE IF status_changed(actual_status, last_status)
             THEN Return(Str(status_message(homework.items["homework_name"],
                                            HOMEWORK_VERDICTS[actual_status.str])))
             ELSE Return(None)

\* ------------------------------------------------------------ send_message
\* send_message without its try/except
send_message_unguarded(delivered) ==
    IF delivered THEN Return(None)
    ELSE Raise("ApiTelegramException", <<"delivery failed">>)

\* lines 83-87: every delivery failure is caught and logged
send_message(delivered) == Return(None)

\* ---------------------------------------------------------- get_api_answer
\* what requests.get does: raise a RequestException subclass (raises # ""),
\* or answer with a status code and a body that is JSON or not
Http(raises, status_code, is_json, json) ==
    [raises |-> raises, status_code |-> status_code, is_json |-> is_json, json |-> json]

\* get_api_answer without the assertion of line 100
get_api_answer_unasserted(http) ==
    IF http.raises # ""
    THEN error_dispatcher(<<"Voznikla oshibka pri zaprose k API ENDPOINT: ", http.raises>>,
                          Instance(http.raises))
    ELSE IF ~http.is_json
    THEN error_dispatcher(<<"Voznikla oshibka pri dekodirovanii otveta ENDPOINT">>,
                          Instance("JSONDecodeError"))
    ELSE Return(http.json)

get_api_answer(http) ==
    IF http.raises # ""
    THEN error_dispatcher(<<"Voznikla oshibka pri zaprose k API ENDPOINT: ", http.raises>>,
                          Instance(http.raises))
    ELSE IF http.status_code # 200
    THEN Raise("AssertionError", <<>>)
    ELSE IF ~http.is_json
    THEN error_dispatcher(<<"Voznikla oshibka pri dekodirovanii otveta ENDPOINT">>,
                          Instance("JSONDecodeError"))
    ELSE Return(http.json)

\* --------------------------------------------------------------- the inputs
Absent == Obj("absent", <<>>, 0, <<>>)
Entry(k, v) == IF v = Absent THEN EmptyItems ELSE (k :> v)

Dates == 1..MaxDate
Names == {Str(<<"hw123.zip">>), Str(<<"hw456.zip">>)}
Verdicts == {Str(s) : s \in DOMAIN HOMEWORK_VERDICTS}
Statuses == Verdicts \cup {Str(<<"unknown_value">>), Str(<<>>), None}

Submission(status, homework_name) ==
    Dict(Entry("status", status) @@ Entry("homework_name", homework_name))

\* every submission the interpreter is fed
Submissions ==
    {Submission(st, nm) : st \in Statuses \cup {Absent}, nm \in Names \cup {Absent}}

\* the elements of a `homeworks` list the validator is fed
Elements ==
    {Submission(st, nm) : st \in {Str(<<"approved">>), Str(<<"unknown_value">>), Absent},
                          nm \in {Str(<<"hw123.zip">>), Absent}}
    \cup {NotDict("str")}

HomeworkValues ==
    {List(l) : l \in UNION {[1..n -> Elements] : n \in 0..MaxHomeworks}}
    \cup {Obj("dict", <<>>, 0, <<>>), None, Absent}

ErrorValues == {Str(<<"bad request">>), Str(<<>>), None, Absent}
DateValues == {Int_(d) : d \in Dates} \cup {Str(<<"2021-04-11">>), None, Absent}
CodeValues == {Str(<<"not_authenticated">>), Absent}
SourceValues == {Str(<<"api">>), Absent}

Response(homeworks, error, code, source, current_date) ==
    Dict(Entry("homeworks", homeworks) @@ Entry("error", error) @@ Entry("code", code)
         @@ Entry("source", source)
         @@ Entry("message", IF source = Absent THEN Absent ELSE Str(<<"forbidden">>))
         @@ Entry("current_date", current_date))

\* every decoded body the validator is fed
Responses ==
    {Response(h, e, c, s, d) : h \in HomeworkValues, e \in ErrorValues,
                               c \in CodeValues, s \in SourceValues, d \in DateValues}
    \cup {NotDict("list"), NotDict("str")}

\* the bodies the polling loop is fed
Payload(status, d) ==
    Response(List(<<Submission(Str(<<"reviewing">>), Str(<<"hw123.zip">>)),
                    Submission(status, Str(<<"hw123.zip">>))>>),
             Absent, Absent, Absent, Int_(d))

LoopResponses ==
    {Payload(st, d) : st \in Verdicts \cup {Str(<<"unknown_value">>)}, d \in Dates}
    \cup {Response(List(<<>>), Absent, Absent, Absent, Int_(1)),
          Response(List(<<>>), Str(<<"bad request">>), Absent, Absent, Absent),
          Response(Absent, Absent, Str(<<"not_authenticated">>), Str(<<"api">>), Absent),
          NotDict("list")}

HttpOutcomes ==
    {Http("", 200, TRUE, r) : r \in LoopResponses}
    \cup {Http("", 200, FALSE, NotDict("str")),
          Http("", 500, TRUE, NotDict("str")),
          Http("ConnectionError", 0, FALSE, NotDict("str")),
          Http("Timeout", 0, FALSE, NotDict("str"))}

\* the values the last-seen slot is read with by the interpreter
LastValues ==
    {None} \cup Statuses
    \cup {Str(status_message(nm, HOMEWORK_VERDICTS[st.str])) : nm \in Names, st \in Verdicts}

TokenValues == {None, Str(<<>>), Str(<<"token">>)}
TokenNames == {"PRACTICUM_TOKEN", "TELEGRAM_TOKEN", "TELEGRAM_CHAT_ID"}

\* ------------------------------------------------------------------- state
VARIABLES
    tokens,                 \* PRACTICUM_TOKEN, TELEGRAM_TOKEN, TELEGRAM_CHAT_ID
    pc,                     \* the statement of main() that runs next
    bot,                    \* main's TeleBot, "" before it is built
    timestamp,              \* main's watermark, None before it is set
    LAST_HOMEWORK_STATUS,   \* the module global
    last_tg_error,          \* main's last notified failure message
    response,               \* main's local: the decoded body of this cycle
    changes,                \* main's local: what parse_status returned
    error,                  \* the exception main caught, or that ended it
    cycle,                  \* history: what this cycle did so far
    prev,                   \* history: what the previous cycle did
    homework,               \* the argument of a lone parse_status call
    result                  \* the outcome of a lone validator/interpreter call

vars == <<tokens, pc, bot, timestamp, LAST_HOMEWORK_STATUS, last_tg_error, response,
          changes, error, cycle, prev, homework, result>>

NoResponse == NotDict("NoneType")
NoHttp == Http("", 0, FALSE, NoResponse)
NoError == Return(None)
Slots(ts, last, err) == [timestamp |-> ts, last |-> last, err |-> err]

\* the history of a cycle that starts with the loop state `start`
NewCycle(start) ==
    [start |-> start, fetches |-> 0, from_date |-> None, http |-> NoHttp, calls |-> <<>>,
     outcome |-> "", failure |-> <<>>, sends |-> <<>>, logged |-> FALSE, slept |-> 0]

Sent(path, text, delivered) == [path |-> path, text |-> text, delivered |-> delivered]

NoCycle == NewCycle(Slots(None, None, <<>>))

\* the module as imported, before main() runs
Init ==
    /\ tokens \in [TokenNames -> TokenValues]
    /\ pc = "main"
    /\ bot = ""
    /\ timestamp = None
    /\ LAST_HOMEWORK_STATUS = None
    /\ last_tg_error = <<>>
    /\ response = NoResponse
    /\ changes = None
    /\ error = NoError
    /\ cycle = NoCycle
    /\ prev = NoCycle
    /\ homework = Submission(Absent, Absent)
    /\ result = NoError

\* lines 208-213: the config guard, the bot, the first watermark, the empty slot
Main ==
    /\ pc = "main"
    /\ LET guard == check_tokens(tokens)
       IN  IF guard.raised
           THEN /\ pc' = "terminated"
                /\ error' = guard
                /\ UNCHANGED <<bot, timestamp, last_tg_error, cycle>>
           ELSE /\ pc' = "get_api_answer"
                /\ bot' = "TeleBot"
                /\ timestamp' = Int_(0)
                /\ last_tg_error' = <<>>
                /\ cycle' = NewCycle(Slots(Int_(0), LAST_HOMEWORK_STATUS, <<>>))
                /\ UNCHANGED error
    /\ UNCHANGED <<tokens, LAST_HOMEWORK_STATUS, response, changes, prev, homework, result>>

\* line 217
GetApiAnswer ==
    /\ pc = "get_api_answer"
    /\ \E http \in HttpOutcomes :
         LET got == get_api_answer(http)
         IN  /\ cycle' = [cycle EXCEPT !.fetches = @ + 1, !.from_date = timestamp,
                                       !.http = http,
                                       !.calls = Append(@, "get_api_answer")]
             /\ IF got.raised
                THEN /\ error' = got
                     /\ pc' = "except"
                     /\ UNCHANGED response
                ELSE /\ response' = got.value
                     /\ pc' = "check_response"
                     /\ UNCHANGED error
    /\ UNCHANGED <<tokens, bot, timestamp, LAST_HOMEWORK_STATUS, last_tg_error, changes,
                   prev, homework, result>>

\* line 218
CheckResponse ==
    /\ pc = "check_response"
    /\ LET checked == check_response(response)
       IN  IF checked.raised
           THEN /\ error' = checked
                /\ pc' = "except"
           ELSE /\ pc' = "parse_status"
                /\ UNCHANGED error
    /\ cycle' = [cycle EXCEPT !.calls = Append(@, "check_response")]
    /\ UNCHANGED <<tokens, bot, timestamp, LAST_HOMEWORK_STATUS, last_tg_error, response,
                   changes, prev, homework, result>>

\* line 219
ParseStatus ==
    /\ pc = "parse_status"
    /\ LET homeworks == response.items["homeworks"].list
           parsed == parse_status(homeworks[Len(homeworks)], LAST_HOMEWORK_STATUS)
       IN  IF parsed.raised
           THEN /\ error' = parsed
                /\ pc' = "except"
                /\ UNCHANGED changes
           ELSE /\ changes' = parsed.value
                /\ pc' = "if_changes"
                /\ UNCHANGED error
    /\ cycle' = [cycle EXCEPT !.calls = Append(@, "parse_status")]
    /\ UNCHANGED <<tokens, bot, timestamp, LAST_HOMEWORK_STATUS, last_tg_error, response,
                   prev, homework, result>>

\* the watermark never advanced
watermark_kept(message, body, watermark) == watermark

\* lines 220-221: the watermark after interpretation returned `message`
watermark_after(message, body, watermark) ==
    IF truthy(message) THEN body.items["current_date"] ELSE watermark

\* lines 220-223
Notify ==
    /\ pc = "if_changes"
    /\ IF truthy(changes)
       THEN \E delivered \in BOOLEAN :
              LET sent == send_message(delivered)
              IN  /\ timestamp' = watermark_after(changes, response, timestamp)
                  /\ cycle' = [cycle EXCEPT
                        !.calls = Append(@, "send_message"),
                        !.sends = Append(@, Sent("status", changes.str, delivered)),
                        !.outcome = IF sent.raised THEN @ ELSE "ok"]
                  /\ IF sent.raised
                     THEN /\ error' = sent
                          /\ pc' = "except"
                          /\ UNCHANGED LAST_HOMEWORK_STATUS
                     ELSE /\ LAST_HOMEWORK_STATUS' = changes
                          /\ pc' = "sleep"
                          /\ UNCHANGED error
       ELSE /\ LAST_HOMEWORK_STATUS' = changes
            /\ cycle' = [cycle EXCEPT !.outcome = "ok"]
            /\ pc' = "sleep"
            /\ timestamp' = watermark_after(changes, response, timestamp)
            /\ UNCHANGED error
    /\ UNCHANGED <<tokens, bot, last_tg_error, response, changes, prev, homework, result>>

\* line 225
failure_message(err) == <<"Sboi v rabote programmy: ">> \o err.text

\* no comparison with the last notified failure
should_notify_always(message, last) == TRUE

\* line 226
should_notify(message, last) == message # last

\* lines 224-229
Except ==
    /\ pc = "except"
    /\ LET message == failure_message(error)
       IN  IF should_notify(message, last_tg_error)
           THEN \E delivered \in BOOLEAN :
                  LET sent == send_message(delivered)
                  IN  /\ cycle' = [cycle EXCEPT
                            !.outcome = "failed", !.failure = message,
                            !.calls = Append(@, "send_message"),
                            !.sends = Append(@, Sent("failure", message, delivered)),
                            !.logged = ~sent.raised]
                      /\ IF sent.raised
                         THEN /\ error' = sent
                              /\ pc' = "terminated"
                              /\ UNCHANGED last_tg_error
                         ELSE /\ last_tg_error' = message
                              /\ pc' = "sleep"
                              /\ UNCHANGED error
           ELSE /\ cycle' = [cycle EXCEPT
                      !.outcome = "failed", !.failure = message, !.logged = TRUE]
                /\ pc' = "sleep"
                /\ UNCHANGED <<last_tg_error, error>>
    /\ UNCHANGED <<tokens, bot, timestamp, LAST_HOMEWORK_STATUS, response, changes, prev,
                   homework, result>>

\* a sleep on success only
sleep_period_on_success(outcome) == IF outcome = "ok" THEN RETRY_PERIOD ELSE 0

\* line 230: the same period whatever the cycle's outcome
sleep_period(outcome) == RETRY_PERIOD

\* line 230, and back to the head of the loop
Sleep ==
    /\ pc = "sleep"
    /\ pc' = "get_api_answer"
    /\ prev' = [cycle EXCEPT !.slept = sleep_period(cycle.outcome),
                             !.calls = Append(@, "sleep")]
    /\ cycle' = NewCycle(Slots(timestamp, LAST_HOMEWORK_STATUS, last_tg_error))
    /\ UNCHANGED <<tokens, bot, timestamp, LAST_HOMEWORK_STATUS, last_tg_error, response,
                   changes, error, homework, result>>

Next == Main \/ GetApiAnswer \/ CheckResponse \/ ParseStatus \/ Notify \/ Except \/ Sleep

Spec == Init /\ [][Next]_vars

\* ------------------------------------------- the validator called on its own
Configured == [name \in TokenNames |-> Str(<<"token">>)]

InitCheck ==
    /\ tokens = Configured
    /\ pc = "call check_response"
    /\ bot = ""
    /\ timestamp = None
    /\ LAST_HOMEWORK_STATUS = None
    /\ last_tg_error = <<>>
    /\ response \in Responses
    /\ changes = None
    /\ error = NoError
    /\ cycle = NoCycle
    /\ prev = NoCycle
    /\ homework = Submission(Absent, Absent)
    /\ result = NoError

CallCheckResponse ==
    /\ pc = "call check_response"
    /\ result' = check_response(response)
    /\ pc' = "returned"
    /\ UNCHANGED <<tokens, bot, timestamp, LAST_HOMEWORK_STATUS, last_tg_error, response,
                   changes, error, cycle, prev, homework>>

NextCheck == CallCheckResponse

SpecCheck == InitCheck /\ [][NextCheck]_vars

\* ----------------------------------------- the interpreter called on its own
InitParse ==
    /\ tokens = Configured
    /\ pc = "call parse_status"
    /\ bot = ""
    /\ timestamp = None
    /\ LAST_HOMEWORK_STATUS \in LastValues
    /\ last_tg_error = <<>>
    /\ response = NoResponse
    /\ changes = None
    /\ error = NoError
    /\ cycle = NoCycle
    /\ prev = NoCycle
    /\ homework \in Submissions
    /\ result = NoError

CallParseStatus ==
    /\ pc = "call parse_status"
    /\ result' = parse_status(homework, LAST_HOMEWORK_STATUS)
    /\ pc' = "returned"
    /\ UNCHANGED <<tokens, bot, timestamp, LAST_HOMEWORK_STATUS, last_tg_error, response,
                   changes, error, cycle, prev, homework>>

NextParse == CallParseStatus

SpecParse == InitParse /\ [][NextParse]_vars

\* ================================================================== properties
\* text `part` occurs in text `whole`
Contains(whole, part) ==
    \E i \in 1..(Len(whole) - Len(part) + 1) : SubSeq(whole, i, i + Len(part) - 1) = part

Returned == pc = "returned"

C6_UnknownStatusRaises ==
    (/\ Returned
     /\ has(homework, "status") /\ has(homework, "homework_name")
     /\ homework.items["status"] \notin Verdicts)
    => /\ result.raised
       /\ result.kind = "CheckStatusExpectedError"
       /\ result.value = None

C6_Witness ==
    /\ Returned
    /\ homework = Submission(Str(<<"unknown_value">>), Str(<<"hw123.zip">>))
    /\ LAST_HOMEWORK_STATUS = Str(<<"unknown_value">>)
    /\ result.kind = "CheckStatusExpectedError"

\* C7: for a dict response without the `homeworks` key, check_response raises
\* the missing-`homeworks` error (CheckHomeworkError), whatever `error`, `code`
\* and `current_date` it holds.  (SpecCheck)
C7_MissingHomeworksFirst ==
    (Returned /\ response.type = "dict" /\ ~has(response, "homeworks"))
    => /\ result.raised
       /\ result.kind = "CheckHomeworkError"
       /\ result.text = <<"Otsutstvuet klyuch 'homeworks' v otvete">>

C7_Witness ==
    /\ Returned
    /\ response.type = "dict"
    /\ ~has(response, "homeworks")
    /\ has(response, "error") /\ has(response, "code") /\ has(response, "current_date")
    /\ result.kind = "CheckHomeworkError"

\* C8: for a dict response with an `error` key and a `homeworks` list,
\* check_response raises CheckRequestError carrying the error value, also when
\* `code` is present, the last submission lacks fields, or `current_date` is
\* missing or no integer.  (SpecCheck)
C8_ErrorTakesPrecedence ==
    (/\ Returned
     /\ response.type = "dict"
     /\ has(response, "homeworks") /\ has(response, "error")
     /\ response.items["homeworks"].type = "list")
    => /\ result.raised
       /\ result.kind = "CheckRequestError"
       /\ result.text = <<"Oshibka pri zaprose: ">> \o fmt(response.items["error"])

C8_Witness ==
    /\ Returned
    /\ response = Response(List(<<Submission(Absent, Absent)>>), Str(<<"bad request">>),
                           Str(<<"not_authenticated">>), Absent, Absent)
    /\ result.kind = "CheckRequestError"
    /\ Contains(result.text, <<"bad request">>)

\* the errors check_response raises on purpose
DeclaredErrors ==
    {"TypeError", "CheckHomeworkError", "CheckRequestError", "CheckResponseError",
     "CheckRequiredFieldsError"}

\* C10: for every decoded response, also one whose `homeworks` list is empty or
\* ends with a non-dict, check_response returns or raises one of its declared
\* errors.  (SpecCheck)
C10_OnlyDeclaredErrors ==
    (Returned /\ result.raised) => result.kind \in DeclaredErrors

\* --------------------------------------------------------- the polling loop
LoopPcs ==
    {"get_api_answer", "check_response", "parse_status", "if_changes", "except", "sleep"}

\* the cycle in `cycle` is complete and the one before it is in `prev`
CycleDone == pc = "sleep"

Count(sends, path) == Len(SelectSeq(sends, LAMBDA s : s.path = path))

\* the submission parse_status was given in a cycle that fetched `http`
Latest(http) ==
    LET homeworks == http.json.items["homeworks"].list IN homeworks[Len(homeworks)]

\* C1: when the fetch returns the same response, whose latest submission has a
\* verdict status, in two consecutive cycles that both pass validation and
\* interpretation, at most one notification is sent across the two cycles.
C1_SameResponseNotifiesOnce ==
    (/\ CycleDone
     /\ prev.outcome = "ok" /\ cycle.outcome = "ok"
     /\ prev.http = cycle.http)
    => Len(prev.sends) + Len(cycle.sends) <= 1

\* C2 as stated: two consecutive failing cycles send exactly one failure
\* notification when their failure messages are identical and two when they
\* differ.
C2_AsStated ==
    (CycleDone /\ prev.outcome = "failed" /\ cycle.outcome = "failed")
    => Count(prev.sends, "failure") + Count(cycle.sends, "failure")
         = IF prev.failure = cycle.failure THEN 1 ELSE 2

\* C2 amended: of two consecutive failing cycles the second sends no failure
\* notification when its message is identical to the first's and one when it
\* differs; the first sends one exactly when its message differs from the last
\* notified failure before it.  So identical messages give one notification and
\* different messages two when the first cycle's message is new, and one fewer
\* otherwise.
C2_DedupAgainstLastNotified ==
    (CycleDone /\ prev.outcome = "failed" /\ cycle.outcome = "failed")
    => /\ Count(prev.sends, "failure") = IF prev.failure # prev.start.err THEN 1 ELSE 0
       /\ Count(cycle.sends, "failure") = IF cycle.failure # prev.failure THEN 1 ELSE 0
       /\ Count(prev.sends, "status") + Count(cycle.sends, "status") = 0

C2_Witness ==
    /\ CycleDone
    /\ prev.outcome = "failed" /\ cycle.outcome = "failed"
    /\ prev.failure = cycle.failure
    /\ Count(prev.sends, "failure") = 1
    /\ cycle.sends = <<>>

\* the order of the statements of one cycle
Rank ==
    [p \in LoopPcs |->
        CASE p = "get_api_answer" -> 1
          [] p = "check_response" -> 2
          [] p = "parse_status" -> 3
          [] p = "if_changes" -> 4
          [] p = "except" -> 5
          [] p = "sleep" -> 6]

\* C3: once the config guard has passed the loop never terminates, whatever the
\* fetch, validation, interpretation and delivery outcomes are: in every state
\* of the loop a next statement can run, every statement moves the cycle
\* forward towards its sleep, and the sleep is followed by the next fetch.
C3_LoopNeverStops ==
    /\ [](pc \in LoopPcs => ENABLED Next)
    /\ [][(pc \in LoopPcs) =>
            /\ pc' \in LoopPcs
            /\ \/ Rank[pc'] > Rank[pc]
               \/ pc = "sleep" /\ pc' = "get_api_answer"]_vars

C3_Witness ==
    /\ cycle.fetches = 1
    /\ prev.outcome = "failed"
    /\ Len(prev.sends) = 1
    /\ prev.sends[1].path = "failure"
    /\ ~prev.sends[1].delivered

NonEmpty(token) == token.type = "str" /\ token.str # <<>>

\* C4: main enters the polling loop if and only if the three credentials are
\* non-empty; otherwise it ends with EnvVarsNotSetError before any fetch, any
\* notification and any change of the loop state.
C4_GuardDecidesStartup ==
    pc # "main" =>
        IF \A name \in TokenNames : NonEmpty(tokens[name])
        THEN pc \in LoopPcs /\ bot = "TeleBot" /\ timestamp.type = "int"
        ELSE /\ pc = "terminated"
             /\ error.raised /\ error.kind = "EnvVarsNotSetError"
             /\ bot = "" /\ timestamp = None
             /\ LAST_HOMEWORK_STATUS = None /\ last_tg_error = <<>>
             /\ cycle = NoCycle /\ prev = NoCycle

C4_Witness ==
    /\ pc = "terminated"
    /\ tokens["PRACTICUM_TOKEN"] = Str(<<"token">>)
    /\ tokens["TELEGRAM_TOKEN"] = Str(<<"token">>)
    /\ tokens["TELEGRAM_CHAT_ID"] = Str(<<>>)
    /\ error.kind = "EnvVarsNotSetError"

\* C9: after a cycle in which fetch, validation and interpretation succeed the
\* last-seen slot holds the status of the last submission of the response, and
\* in every state the slot is None or one of the three verdict statuses.
C9_SlotHoldsStatus ==
    /\ (CycleDone /\ cycle.outcome = "ok")
           => LAST_HOMEWORK_STATUS = Latest(cycle.http).items["status"]
    /\ LAST_HOMEWORK_STATUS = None \/ LAST_HOMEWORK_STATUS \in Verdicts

\* the response passes the structural checks: a dict with a `homeworks` list
Structural ==
    /\ response.type = "dict"
    /\ has(response, "homeworks")
    /\ response.items["homeworks"].type = "list"

Rejected == result.raised /\ result.kind = "CheckRequestError"

\* C11 as stated: for a response that passes the structural checks,
\* check_response raises CheckRequestError if and only if the `error` key is
\* present and its value is truthy.  (SpecCheck)
C11_AsStated ==
    (Returned /\ Structural)
    => (Rejected <=> (has(response, "error") /\ truthy(response.items["error"])))

\* C11 amended: for a response that passes the structural checks,
\* check_response raises CheckRequestError if and only if the `error` key is
\* present, whatever its value: an empty or null `error` is rejected too and
\* does not continue to the later checks.  (SpecCheck)
C11_RejectedIffErrorPresent ==
    (Returned /\ Structural) => (Rejected <=> has(response, "error"))

C11_Witness ==
    /\ Returned
    /\ response = Response(List(<<Submission(Str(<<"approved">>), Str(<<"hw123.zip">>))>>),
                           Str(<<>>), Absent, Absent, Int_(1))
    /\ Rejected

\* a finished cycle `c` produced a status-change message
Produced(c) == Count(c.sends, "status") > 0

\* the watermark a cycle `c` leaves when the loop state before it was `start`
WatermarkLeft(c) ==
    IF Produced(c) THEN c.http.json.items["current_date"] ELSE c.start.timestamp

\* C12: the watermark passed to the fetch changes only in a cycle that produced
\* a status-change message, where it becomes the current_date of that cycle's
\* response; a failing cycle and a cycle without a message leave it unchanged,
\* so the next fetch is issued with the same from_date.
C12_WatermarkAdvancesOnMessage ==
    /\ CycleDone => timestamp = WatermarkLeft(cycle)
    /\ (pc \in LoopPcs /\ ~Produced(cycle)) => timestamp = cycle.start.timestamp
    /\ cycle.fetches = 1 => cycle.from_date = cycle.start.timestamp
    /\ (cycle.fetches = 1 /\ prev.fetches = 1) => cycle.from_date = WatermarkLeft(prev)
    /\ (cycle.fetches = 1 /\ prev.fetches = 1 /\ ~Produced(prev))
           => cycle.from_date = prev.from_date

C12_Witness ==
    /\ cycle.fetches = 1
    /\ Produced(prev)
    /\ prev.from_date = Int_(0)
    /\ prev.http.json.items["current_date"] = Int_(2)
    /\ cycle.from_date = Int_(2)

\* the classes of requests.RequestException the transport raises
RequestErrors == {"RequestException", "ConnectionError", "Timeout"}

\* the fetch of this cycle has just failed and main has caught its exception
FetchFailed == pc = "except" /\ cycle.calls = <<"get_api_answer">>

\* C13: a body that is no JSON makes the fetch fail with the decode error and a
\* network failure makes it fail with the request error: that is the kind of
\* error main catches, and main goes on.
C13_FetchErrorKinds ==
    FetchFailed =>
        /\ cycle.http.raises # "" =>
               error.kind \in RequestErrors /\ error.kind = cycle.http.raises
        /\ (cycle.http.raises = "" /\ cycle.http.status_code = 200 /\ ~cycle.http.is_json)
               => error.kind = "JSONDecodeError"

\* cycle `c` has fetched and the HTTP status of the answer was not 200
NonOk(c) == c.fetches = 1 /\ c.http.raises = "" /\ c.http.status_code # 200

Called(c, name) == \E i \in 1..Len(c.calls) : c.calls[i] = name

\* C14: when the HTTP status is not 200 the fetch returns no payload and the
\* cycle fails: check_response and parse_status are not run, no status-change
\* notification is sent, and the failure is logged and notified through the
\* deduplicating failure path.
C14_NonOkIsFailureCycle ==
    /\ (pc \in LoopPcs /\ NonOk(cycle)) =>
           /\ pc \in {"except", "sleep"}
           /\ ~Called(cycle, "check_response") /\ ~Called(cycle, "parse_status")
           /\ Count(cycle.sends, "status") = 0
    /\ (CycleDone /\ NonOk(cycle)) =>
           /\ cycle.outcome = "failed"
           /\ cycle.failure = <<"Sboi v rabote programmy: ">>
           /\ cycle.logged
           /\ Count(cycle.sends, "failure")
                  = IF cycle.failure # cycle.start.err THEN 1 ELSE 0

C14_Witness ==
    /\ CycleDone
    /\ NonOk(cycle)
    /\ cycle.http.status_code = 500
    /\ cycle.calls = <<"get_api_answer", "send_message">>
    /\ Count(cycle.sends, "failure") = 1

Times(c, name) == Cardinality({i \in 1..Len(c.calls) : c.calls[i] = name})

\* C15: every cycle issues exactly one fetch, as its first call, and ends with
\* exactly one sleep of RETRY_PERIOD seconds, whether it succeeded or failed;
\* the cycle in progress has fetched at most once and has not slept, so exactly
\* one sleep separates two consecutive fetches.
C15_OneFetchOneSleep ==
    /\ Len(prev.calls) > 0 =>
           /\ prev.outcome \in {"ok", "failed"}
           /\ prev.fetches = 1
           /\ Times(prev, "get_api_answer") = 1 /\ prev.calls[1] = "get_api_answer"
           /\ Times(prev, "sleep") = 1 /\ prev.calls[Len(prev.calls)] = "sleep"
           /\ prev.slept = RETRY_PERIOD
    /\ pc \in LoopPcs =>
           /\ Times(cycle, "sleep") = 0 /\ cycle.slept = 0
           /\ cycle.fetches = IF pc = "get_api_answer" THEN 0 ELSE 1
           /\ Times(cycle, "get_api_answer") = cycle.fetches

C15_Witness ==
    /\ prev.outcome = "failed"
    /\ prev.slept = RETRY_PERIOD
    /\ prev.calls = <<"get_api_answer", "check_response", "send_message", "sleep">>
    /\ cycle.fetches = 1

\* C16: a failing cycle sends its failure message if and only if the text
\* differs from the last notified failure, and always logs it; a successful
\* cycle leaves that slot alone, so a failure whose text was the last notified
\* one before a successful cycle is logged and not notified again.
C16_DedupSurvivesSuccess ==
    /\ (CycleDone /\ cycle.outcome = "failed") =>
           /\ Count(cycle.sends, "failure") = IF cycle.failure # cycle.start.err THEN 1 ELSE 0
           /\ cycle.logged
           /\ last_tg_error = cycle.failure
    /\ (CycleDone /\ cycle.outcome = "ok") =>
           /\ last_tg_error = cycle.start.err
           /\ ~cycle.logged
    /\ (CycleDone /\ prev.outcome = "ok" /\ cycle.outcome = "failed"
           /\ cycle.failure = prev.start.err)
           => cycle.sends = <<>> /\ cycle.logged

C16_Witness ==
    /\ CycleDone
    /\ prev.outcome = "ok" /\ cycle.outcome = "failed"
    /\ cycle.failure = prev.start.err
    /\ cycle.sends = <<>>
    /\ cycle.logged

\* the loop state a cycle leaves, as a function of the loop state before it and
\* of what the fetch did alone: no delivery outcome occurs in it
SlotsAfter(start, http) ==
    LET got == get_api_answer(http)
        checked == check_response(got.value)
        homeworks == got.value.items["homeworks"].list
        parsed == parse_status(homeworks[Len(homeworks)], start.last)
        Failed(e) == Slots(start.timestamp, start.last, failure_message(e))
    IN  IF got.raised THEN Failed(got)
        ELSE IF checked.raised THEN Failed(checked)
        ELSE IF parsed.raised THEN Failed(parsed)
        ELSE Slots(IF truthy(parsed.value) THEN got.value.items["current_date"]
                                           ELSE start.timestamp,
                   parsed.value, start.err)

Undelivered(c, path) ==
    \E i \in 1..Len(c.sends) : c.sends[i].path = path /\ ~c.sends[i].delivered

\* C17: the loop state after a cycle (watermark, last-seen slot, last notified
\* failure) is determined by the loop state before it and the fetch outcome,
\* whatever the delivery outcome was, so runs that differ only in delivery
\* outcomes stay in the same states; a failure message or a status change
\* whose delivery failed is recorded as if it had been delivered.
C17_DeliveryDoesNotChangeState ==
    CycleDone =>
        /\ Slots(timestamp, LAST_HOMEWORK_STATUS, last_tg_error)
               = SlotsAfter(cycle.start, cycle.http)
        /\ Undelivered(cycle, "failure") => last_tg_error = cycle.failure
        /\ Undelivered(cycle, "status") =>
               /\ LAST_HOMEWORK_STATUS = Str(cycle.sends[1].text)
               /\ timestamp = cycle.http.json.items["current_date"]

C17_Witness ==
    /\ CycleDone
    /\ Undelivered(cycle, "failure")
    /\ last_tg_error = cycle.failure
    /\ last_tg_error # cycle.start.err

\* C18: a cycle that fails in fetch, validation or interpretation leaves the
\* last-seen slot and the watermark as they were when it started; of the loop
\* state only the last notified failure may change, and only to the failure
\* message of that cycle.
C18_FailureLeavesSlots ==
    /\ pc = "except" =>
           /\ timestamp = cycle.start.timestamp
           /\ LAST_HOMEWORK_STATUS = cycle.start.last
           /\ last_tg_error = cycle.start.err
    /\ (CycleDone /\ cycle.outcome = "failed") =>
           /\ timestamp = cycle.start.timestamp
           /\ LAST_HOMEWORK_STATUS = cycle.start.last
           /\ last_tg_error \in {cycle.start.err, cycle.failure}

C18_Witness ==
    /\ CycleDone
    /\ cycle.outcome = "failed"
    /\ Called(cycle, "parse_status")
    /\ LAST_HOMEWORK_STATUS = cycle.start.last /\ LAST_HOMEWORK_STATUS # None
    /\ timestamp = cycle.start.timestamp /\ timestamp # Int_(0)
    /\ last_tg_error = cycle.failure /\ last_tg_error # cycle.start.err

\* C19: a cycle attempts at most one send: one status-change notification in
\* a cycle that succeeds, one failure notification or none in a cycle that
\* fails, and never a status-change notification followed by a failure
\* notification.
C19_AtMostOneSend ==
    /\ Len(cycle.sends) <= 1 /\ Len(prev.sends) <= 1
    /\ Times(cycle, "send_message") = Len(cycle.sends)
    /\ ~(Count(cycle.sends, "status") > 0 /\ Count(cycle.sends, "failure") > 0)
    /\ CycleDone =>
           /\ cycle.outcome = "ok" => Count(cycle.sends, "failure") = 0
           /\ cycle.outcome = "failed" => Count(cycle.sends, "status") = 0

C19_Witness ==
    /\ CycleDone
    /\ Len(cycle.sends) = 1
    /\ cycle.sends[1].path = "status"
    /\ ~cycle.sends[1].delivered
    /\ cycle.outcome = "ok"

====
